---- MODULE Spec2Model ----
(***************************************************************************)
(* Model of the scraperrs crawler (src/src/main.rs): the crawl loop of     *)
(* main, the fetcher scrap_url, the two link extractors and the record     *)
(* extractor extract_enterprise_data.                                      *)
(*                                                                         *)
(* Strings are modelled as sequences of tokens.  An href is a sequence     *)
(* whose first token is its prefix ("http://", "https://", "/", ...) and   *)
(* whose second token identifies the rest; URL equality is equality of     *)
(* the whole sequence.  A text blob is a sequence whose tokens are either  *)
(* one of the four labels or a single character.  No label is a substring  *)
(* of another and no proper suffix of a label is a prefix of a label, so   *)
(* every text splits into such tokens in exactly one way and a substring   *)
(* search for a label is a search for its token.                           *)
(***************************************************************************)
EXTENDS Integers, Sequences, FiniteSets, TLC

\* ---------------------------------------------------------------- bounds
NumUrls == 3
MaxPag == 1
MaxEnt == 1
MaxRecords == 2
MaxTimeout == 1
MaxRetries == 2
MaxBlob == 3
MaxNodes == 2
MaxAnchors == 3
MaxTracePag == 2

VARIABLES
  pc,                  \* position of the program (per specification)
  max_records,         \* args.max_records
  timeout,             \* args.timeout
  retries_on_timeout,  \* args.retries_on_timeout
  urls_to_visit,       \* VecDeque<String>, the frontier
  url_visited,         \* Vec<String>
  enterprises,         \* Vec<Enterprise>
  errlog,              \* URLs of the "ERROR on ..." lines printed to stderr
  sink,                \* rows handed to csv_writer
  panic,               \* the panic that aborted the run and the number of requests
                       \* the panicking call had sent; msg "none" while running
  linked,              \* history: the seed and every link extracted so far
  net,                 \* what the network does during one call of scrap_url
  result,              \* what that call of scrap_url returned
  node,                \* text of the description node processed last
  enterprise,          \* the record extract_enterprise_data is building
  nodes_done           \* number of description nodes processed

vars == <<pc, max_records, timeout, retries_on_timeout, urls_to_visit,
          url_visited, enterprises, errlog, sink, panic, linked,
          net, result, node, enterprise, nodes_done>>

engineVars == <<max_records, timeout, retries_on_timeout, urls_to_visit,
                url_visited, enterprises, errlog, sink, panic, linked>>
fetchVars == <<net, result>>
extractVars == <<node, enterprise, nodes_done>>

\* ---------------------------------------------------------------- helpers
SeqsUpTo(S, n) == UNION {[1..k -> S] : k \in 0..n}

Range(s) == {s[i] : i \in 1..Len(s)}

Contains(s, x) == \E i \in 1..Len(s) : s[i] = x

Count(s, x) == Cardinality({i \in 1..Len(s) : s[i] = x})

NoDup(s) == \A i, j \in 1..Len(s) : s[i] = s[j] => i = j

\* ---------------------------------------------------------------- documents
URLS == {<<"http://", i>> : i \in 1..NumUrls}

Seed == <<"http://", 1>>

RelHref == <<"/", 1>>

Labels == {"Domicilio", "Teléfono", "Correo electrónico", "Persona de contacto"}

Space == " "

NoCard == [card |-> FALSE]

Card(h2, nodes) == [card |-> TRUE, h2 |-> h2, nodes |-> nodes]

\* the detail cards the crawled pages carry
EngineDocs == {NoCard} \cup {Card(<<n>>, <<>>) : n \in {"x", "y"}}

Bodies == [pager : SeqsUpTo(URLS \cup {RelHref}, MaxPag),
           lm    : SeqsUpTo(URLS \cup {RelHref}, MaxEnt),
           doc   : EngineDocs]

NoBody == [pager |-> <<>>, lm |-> <<>>, doc |-> NoCard]

Outcomes == {"ok", "timeout", "error", "badbody"}

Scripts(n) == [1..n -> Outcomes]

\* ---------------------------------------------------------------- scrap_url
FetchResult(kind, body, err, attempts) ==
  [kind |-> kind, body |-> body, err |-> err, attempts |-> attempts]

\* the for loop of scrap_url from its i-th attempt on; n.outs[i] is what the
\* network does to the i-th request, n.body the body a good response carries
\* attempt_loop with the last attempt left out (range 1..retries_on_timeout)
RECURSIVE attempt_loop_short(_, _, _)
attempt_loop_short(i, retries, n) ==
  IF i >= retries
    THEN FetchResult("Err", NoBody, "TimedOut", retries)
    ELSE CASE n.outs[i] = "ok"      -> FetchResult("Ok", n.body, "", i)
           [] n.outs[i] = "badbody" -> FetchResult("Panic", NoBody, "response.text().await.unwrap()", i)
           [] n.outs[i] = "timeout" -> attempt_loop_short(i + 1, retries, n)
           [] n.outs[i] = "error"   -> FetchResult("Err", NoBody, "reqwest", i)

\* attempt_loop without the is_timeout guard: every failed request is retried
RECURSIVE attempt_loop_retry_all(_, _, _)
attempt_loop_retry_all(i, retries, n) ==
  IF i > retries
    THEN FetchResult("Err", NoBody, "TimedOut", retries)
    ELSE CASE n.outs[i] = "ok"      -> FetchResult("Ok", n.body, "", i)
           [] n.outs[i] = "badbody" -> FetchResult("Panic", NoBody, "response.text().await.unwrap()", i)
           [] n.outs[i] = "timeout" -> attempt_loop_retry_all(i + 1, retries, n)
           [] n.outs[i] = "error"   -> attempt_loop_retry_all(i + 1, retries, n)

RECURSIVE attempt_loop(_, _, _)
attempt_loop(i, retries, n) ==
  IF i > retries
    THEN FetchResult("Err", NoBody, "TimedOut", retries)
    ELSE CASE n.outs[i] = "ok"      -> FetchResult("Ok", n.body, "", i)
           [] n.outs[i] = "badbody" -> FetchResult("Panic", NoBody, "response.text().await.unwrap()", i)
           [] n.outs[i] = "timeout" -> attempt_loop(i + 1, retries, n)
           [] n.outs[i] = "error"   -> FetchResult("Err", NoBody, "reqwest", i)

\* scrap_url without its two assertions
scrap_url_unchecked(t, retries, n) == attempt_loop(1, retries, n)

scrap_url(t, retries, n) ==
  IF ~(t > 0) THEN FetchResult("Panic", NoBody, "assert!(timeout > 0)", 0)
  ELSE IF ~(retries > 0) THEN FetchResult("Panic", NoBody, "assert!(retries_on_timeout > 0)", 0)
  ELSE attempt_loop(1, retries, n)

\* ---------------------------------------------------------------- link extractors
\* starts_with testing "http://" only
starts_with_http_only(href) == Len(href) > 0 /\ href[1] \in {"http://"}

starts_with_http(href) == Len(href) > 0 /\ href[1] \in {"http://", "https://"}

extract_pagination_links(body) == SelectSeq(body.pager, starts_with_http)

extract_enterprise_links(body) == SelectSeq(body.lm, starts_with_http)

\* ---------------------------------------------------------------- record extractor
Enterprise_new ==
  [name |-> <<>>, address |-> <<>>, phone |-> <<>>, email |-> <<>>, contact_person |-> <<>>]

None == [some |-> FALSE]

Some(e) == [some |-> TRUE, val |-> e]

\* str::find of a label: index of its first occurrence, 0 for None
find(text, pat) ==
  IF Contains(text, pat)
    THEN CHOOSE i \in 1..Len(text) : text[i] = pat /\ \A j \in 1..(i - 1) : text[j] # pat
    ELSE 0

RECURSIVE trim_start(_)
trim_start(s) == IF s # <<>> /\ Head(s) = Space THEN trim_start(Tail(s)) ELSE s

RECURSIVE trim_end(_)
trim_end(s) ==
  IF s # <<>> /\ s[Len(s)] = Space THEN trim_end(SubSeq(s, 1, Len(s) - 1)) ELSE s

trim(s) == trim_end(trim_start(s))

\* text.drain(from..): the removed tail and what is left in text
drain(text, from) ==
  [drained |-> SubSeq(text, from, Len(text)), rest |-> SubSeq(text, 1, from - 1)]

\* lookup that slices without draining: text is left whole
lookup_keep_text(st, field, label) ==
  LET index == find(st.text, label)
  IN IF index # 0
       THEN [e |-> [st.e EXCEPT ![field] = trim(SubSeq(st.text, index + 1, Len(st.text)))],
             text |-> st.text]
       ELSE st

\* lookup that clears the field when the label is not found
lookup_or_default(st, field, label) ==
  LET index == find(st.text, label)
      d == drain(st.text, index + 1)
  IN IF index # 0
       THEN [e |-> [st.e EXCEPT ![field] = trim(d.drained)], text |-> d.rest]
       ELSE [e |-> [st.e EXCEPT ![field] = <<>>], text |-> st.text]

\* one "if let Some(index) = text.find(label) { field = text.drain(..).trim() }"
\* st.e is the record, st.text the local variable text
lookup(st, field, label) ==
  LET index == find(st.text, label)
      d == drain(st.text, index + 1)
  IN IF index # 0
       THEN [e |-> [st.e EXCEPT ![field] = trim(d.drained)], text |-> d.rest]
       ELSE st

\* the labels in the order of their lookups, and the field each one sets
LabelOrder == <<"Domicilio", "Teléfono", "Correo electrónico", "Persona de contacto">>

FieldOrder == <<"address", "phone", "email", "contact_person">>

\* body of the loop over the description nodes
process_node(e, text) ==
  LET s1 == lookup([e |-> e, text |-> text], "address", "Domicilio")
      s2 == lookup(s1, "phone", "Teléfono")
      s3 == lookup(s2, "email", "Correo electrónico")
      s4 == lookup(s3, "contact_person", "Persona de contacto")
  IN s4.e

RECURSIVE process_nodes(_, _)
process_nodes(e, nodes) ==
  IF nodes = <<>> THEN e ELSE process_nodes(process_node(e, Head(nodes)), Tail(nodes))

extract_enterprise_data(doc) ==
  IF doc.card
    THEN Some(process_nodes([Enterprise_new EXCEPT !.name = trim(doc.h2)], doc.nodes))
    ELSE None

\* ---------------------------------------------------------------- main
CSV_COLUMNS_LABALS ==
  <<"Nombre", "Domicilio", "Teléfono", "Correo electrónico", "Persona de contacto">>

\* csv_writer.serialize(ent): one row, the fields in declaration order
serialize(ent) == <<ent.name, ent.address, ent.phone, ent.email, ent.contact_person>>

\* push_new_links testing every link against the frontier as it was before
\* the page's links were added
push_new_links_stale(links, visited, queue) ==
  LET new(l) == ~Contains(visited, l) /\ ~Contains(queue, l)
  IN queue \o SelectSeq(links, new)

\* push_new_links without the test against url_visited
RECURSIVE push_new_links_no_visited(_, _, _)
push_new_links_no_visited(links, visited, queue) ==
  IF links = <<>>
    THEN queue
    ELSE push_new_links_no_visited(Tail(links), visited,
           IF ~Contains(queue, Head(links)) THEN Append(queue, Head(links)) ELSE queue)

\* the for loop over links: a link is tested against the frontier as the
\* earlier links of the same page have left it
RECURSIVE push_new_links(_, _, _)
push_new_links(links, visited, queue) ==
  IF links = <<>>
    THEN queue
    ELSE push_new_links(Tail(links), visited,
           IF ~Contains(visited, Head(links)) /\ ~Contains(queue, Head(links))
             THEN Append(queue, Head(links))
             ELSE queue)

\* page_links with the two extractors in the other order
page_links_enterprise_first(body) ==
  extract_enterprise_links(body) \o extract_pagination_links(body)

page_links(body) == extract_pagination_links(body) \o extract_enterprise_links(body)

push_enterprise(ents, body) ==
  LET found == extract_enterprise_data(body.doc)
  IN IF found.some THEN Append(ents, found.val) ELSE ents

\* after_iteration without the max_records > 0 test
after_iteration_no_zero(ents) ==
  IF Len(ents) >= max_records THEN "csv" ELSE "loop"

\* after_iteration comparing with > instead of >=
after_iteration_late(ents) ==
  IF max_records > 0 /\ Len(ents) > max_records THEN "csv" ELSE "loop"

\* the test that ends an iteration: break, or back to the while condition
after_iteration(ents) ==
  IF max_records > 0 /\ Len(ents) >= max_records THEN "csv" ELSE "loop"

NoPanic == [msg |-> "none", attempts |-> 0]

IdleNet == [outs |-> <<>>, body |-> NoBody]

IdleResult == FetchResult("none", NoBody, "", 0)

EngineInit ==
  /\ pc = "loop"
  /\ max_records \in 0..MaxRecords
  /\ timeout \in 0..MaxTimeout
  /\ retries_on_timeout \in 0..MaxRetries
  /\ urls_to_visit = <<Seed>>
  /\ url_visited = <<>>
  /\ enterprises = <<>>
  /\ errlog = <<>>
  /\ sink = <<>>
  /\ panic = NoPanic
  /\ linked = {Seed}
  /\ net = IdleNet
  /\ result = IdleResult
  /\ node = <<>>
  /\ enterprise = None
  /\ nodes_done = 0

\* LoopOk without url_visited.push(url)
LoopOk_not_visited(n) ==
  /\ pc = "loop"
  /\ Len(urls_to_visit) > 0
  /\ LET r == scrap_url(timeout, retries_on_timeout, n)
         links == page_links(r.body)
         ents == push_enterprise(enterprises, r.body)
     IN /\ r.kind = "Ok"
        /\ urls_to_visit' = push_new_links(links, url_visited, Tail(urls_to_visit))
        /\ enterprises' = ents
        /\ linked' = linked \cup Range(links)
        /\ pc' = after_iteration(ents)
  /\ UNCHANGED <<max_records, timeout, retries_on_timeout, errlog, sink, panic, url_visited>>
  /\ UNCHANGED <<fetchVars, extractVars>>

\* one iteration whose fetch returns Ok(body)
LoopOk(n) ==
  /\ pc = "loop"
  /\ Len(urls_to_visit) > 0
  /\ LET url == Head(urls_to_visit)
         r == scrap_url(timeout, retries_on_timeout, n)
         links == page_links(r.body)
         ents == push_enterprise(enterprises, r.body)
     IN /\ r.kind = "Ok"
        /\ urls_to_visit' = push_new_links(links, url_visited, Tail(urls_to_visit))
        /\ enterprises' = ents
        /\ url_visited' = Append(url_visited, url)
        /\ linked' = linked \cup Range(links)
        /\ pc' = after_iteration(ents)
  /\ UNCHANGED <<max_records, timeout, retries_on_timeout, errlog, sink, panic>>
  /\ UNCHANGED <<fetchVars, extractVars>>

\* LoopErr putting the failed URL back at the tail of the frontier
LoopErr_requeue(n) ==
  /\ pc = "loop"
  /\ Len(urls_to_visit) > 0
  /\ LET url == Head(urls_to_visit)
         r == scrap_url(timeout, retries_on_timeout, n)
     IN /\ r.kind = "Err"
        /\ urls_to_visit' = Append(Tail(urls_to_visit), url)
        /\ errlog' = Append(errlog, url)
        /\ url_visited' = Append(url_visited, url)
        /\ pc' = after_iteration(enterprises)
  /\ UNCHANGED <<max_records, timeout, retries_on_timeout, enterprises, sink, panic, linked>>
  /\ UNCHANGED <<fetchVars, extractVars>>

\* LoopErr leaving the loop body before url_visited.push(url)
LoopErr_not_visited(n) ==
  /\ pc = "loop"
  /\ Len(urls_to_visit) > 0
  /\ LET url == Head(urls_to_visit)
         r == scrap_url(timeout, retries_on_timeout, n)
     IN /\ r.kind = "Err"
        /\ urls_to_visit' = Tail(urls_to_visit)
        /\ errlog' = Append(errlog, url)
        /\ pc' = after_iteration(enterprises)
  /\ UNCHANGED <<max_records, timeout, retries_on_timeout, enterprises, sink, panic, linked,
                 url_visited>>
  /\ UNCHANGED <<fetchVars, extractVars>>

\* one iteration whose fetch returns Err(err)
LoopErr(n) ==
  /\ pc = "loop"
  /\ Len(urls_to_visit) > 0
  /\ LET url == Head(urls_to_visit)
         r == scrap_url(timeout, retries_on_timeout, n)
     IN /\ r.kind = "Err"
        /\ urls_to_visit' = Tail(urls_to_visit)
        /\ errlog' = Append(errlog, url)
        /\ url_visited' = Append(url_visited, url)
        /\ pc' = after_iteration(enterprises)
  /\ UNCHANGED <<max_records, timeout, retries_on_timeout, enterprises, sink, panic, linked>>
  /\ UNCHANGED <<fetchVars, extractVars>>

\* an iteration in which scrap_url panics: the process aborts
LoopPanic(n) ==
  /\ pc = "loop"
  /\ Len(urls_to_visit) > 0
  /\ LET r == scrap_url(timeout, retries_on_timeout, n)
     IN /\ r.kind = "Panic"
        /\ urls_to_visit' = Tail(urls_to_visit)
        /\ panic' = [msg |-> r.err, attempts |-> r.attempts]
        /\ pc' = "panicked"
  /\ UNCHANGED <<max_records, timeout, retries_on_timeout, url_visited, enterprises,
                 errlog, sink, linked>>
  /\ UNCHANGED <<fetchVars, extractVars>>

\* the while condition fails
LoopExit ==
  /\ pc = "loop"
  /\ ~(Len(urls_to_visit) > 0)
  /\ pc' = "csv"
  /\ UNCHANGED <<engineVars, fetchVars, extractVars>>

\* WriteCsv without the enterprises.len() > 0 test
WriteCsv_always_header ==
  /\ pc = "csv"
  /\ sink' = sink \o <<CSV_COLUMNS_LABALS>>
                   \o [i \in 1..Len(enterprises) |-> serialize(enterprises[i])]
  /\ pc' = "done"
  /\ UNCHANGED <<max_records, timeout, retries_on_timeout, urls_to_visit, url_visited,
                 enterprises, errlog, panic, linked>>
  /\ UNCHANGED <<fetchVars, extractVars>>

\* the statements after the loop
WriteCsv ==
  /\ pc = "csv"
  /\ sink' = IF Len(enterprises) > 0
               THEN sink \o <<CSV_COLUMNS_LABALS>>
                         \o [i \in 1..Len(enterprises) |-> serialize(enterprises[i])]
               ELSE sink
  /\ pc' = "done"
  /\ UNCHANGED <<max_records, timeout, retries_on_timeout, urls_to_visit, url_visited,
                 enterprises, errlog, panic, linked>>
  /\ UNCHANGED <<fetchVars, extractVars>>

Init == EngineInit

Next ==
  \/ \E outs \in Scripts(retries_on_timeout), body \in Bodies :
        LoopOk([outs |-> outs, body |-> body])
  \/ \E outs \in Scripts(retries_on_timeout) : LoopErr([outs |-> outs, body |-> NoBody])
  \/ \E outs \in Scripts(retries_on_timeout) : LoopPanic([outs |-> outs, body |-> NoBody])
  \/ LoopExit
  \/ WriteCsv

Spec == Init /\ [][Next]_vars

\* the loop is sequential code: whenever a step is possible one is taken
FairSpec == Init /\ [][Next]_vars /\ WF_vars(Next)

\* ---------------------------------------------------------------- main, pages recorded
\* The crawl loop with net recording what the network did during the call of
\* scrap_url of the last iteration, the served page included.  To keep the
\* recorded runs few, the fetcher arguments are fixed (one request of one
\* second per call), every page carries the detail card named x, and all
\* hrefs are absolute; the pagination lists are longer than those of Bodies.
TraceBodies == [pager : SeqsUpTo(URLS, MaxTracePag),
                lm    : SeqsUpTo(URLS, MaxEnt),
                doc   : {Card(<<"x">>, <<>>)}]

TraceInit ==
  /\ pc = "loop"
  /\ max_records \in 0..MaxRecords
  /\ timeout = 1
  /\ retries_on_timeout = 1
  /\ urls_to_visit = <<Seed>>
  /\ url_visited = <<>>
  /\ enterprises = <<>>
  /\ errlog = <<>>
  /\ sink = <<>>
  /\ panic = NoPanic
  /\ linked = {Seed}
  /\ net = IdleNet
  /\ result = IdleResult
  /\ node = <<>>
  /\ enterprise = None
  /\ nodes_done = 0

\* LoopOk, the page recorded
TraceOk(n) ==
  /\ pc = "loop"
  /\ Len(urls_to_visit) > 0
  /\ LET url == Head(urls_to_visit)
         r == scrap_url(timeout, retries_on_timeout, n)
         links == page_links(r.body)
         ents == push_enterprise(enterprises, r.body)
     IN /\ r.kind = "Ok"
        /\ urls_to_visit' = push_new_links(links, url_visited, Tail(urls_to_visit))
        /\ enterprises' = ents
        /\ url_visited' = Append(url_visited, url)
        /\ linked' = linked \cup Range(links)
        /\ pc' = after_iteration(ents)
        /\ net' = n
  /\ UNCHANGED <<max_records, timeout, retries_on_timeout, errlog, sink, panic>>
  /\ UNCHANGED <<result, extractVars>>

\* LoopErr, the failed requests recorded
TraceErr(n) ==
  /\ pc = "loop"
  /\ Len(urls_to_visit) > 0
  /\ LET url == Head(urls_to_visit)
         r == scrap_url(timeout, retries_on_timeout, n)
     IN /\ r.kind = "Err"
        /\ urls_to_visit' = Tail(urls_to_visit)
        /\ errlog' = Append(errlog, url)
        /\ url_visited' = Append(url_visited, url)
        /\ pc' = after_iteration(enterprises)
        /\ net' = n
  /\ UNCHANGED <<max_records, timeout, retries_on_timeout, enterprises, sink, panic, linked>>
  /\ UNCHANGED <<result, extractVars>>

TraceNext ==
  \/ \E outs \in Scripts(retries_on_timeout), body \in TraceBodies :
        TraceOk([outs |-> outs, body |-> body])
  \/ \E outs \in Scripts(retries_on_timeout) : TraceErr([outs |-> outs, body |-> NoBody])
  \/ \E outs \in Scripts(retries_on_timeout) : LoopPanic([outs |-> outs, body |-> NoBody])
  \/ LoopExit
  \/ WriteCsv

TraceSpec == TraceInit /\ [][TraceNext]_vars

\* ---------------------------------------------------------------- scrap_url alone
\* One call of scrap_url against every behaviour of the network.
FetchBodies == {b \in Bodies : b.pager = <<>> /\ b.lm = <<>>}

FetchInit ==
  /\ pc = "call"
  /\ timeout \in 0..MaxTimeout
  /\ retries_on_timeout \in 0..MaxRetries
  /\ net \in [outs : Scripts(MaxRetries), body : FetchBodies]
  /\ result = IdleResult
  /\ max_records = 0
  /\ urls_to_visit = <<>>
  /\ url_visited = <<>>
  /\ enterprises = <<>>
  /\ errlog = <<>>
  /\ sink = <<>>
  /\ panic = NoPanic
  /\ linked = {}
  /\ node = <<>>
  /\ enterprise = None
  /\ nodes_done = 0

ScrapUrl ==
  /\ pc = "call"
  /\ result' = scrap_url(timeout, retries_on_timeout, net)
  /\ pc' = "returned"
  /\ UNCHANGED <<net, engineVars, extractVars>>

FetchNext == ScrapUrl

FetchSpec == FetchInit /\ [][FetchNext]_vars

\* ---------------------------------------------------------------- extract_enterprise_data alone
\* One call of extract_enterprise_data, one description node per step.
Blobs == SeqsUpTo(Labels \cup {Space, "x"}, MaxBlob)

Headings == SeqsUpTo({Space, "x"}, 2)

ExtractInit ==
  /\ pc = "select"
  /\ enterprise = None
  /\ node = <<>>
  /\ nodes_done = 0
  /\ result = None
  /\ net = IdleNet
  /\ max_records = 0
  /\ timeout = 0
  /\ retries_on_timeout = 0
  /\ urls_to_visit = <<>>
  /\ url_visited = <<>>
  /\ enterprises = <<>>
  /\ errlog = <<>>
  /\ sink = <<>>
  /\ panic = NoPanic
  /\ linked = {}

\* the document has no detail card
ReturnNone ==
  /\ pc = "select"
  /\ result' = None
  /\ pc' = "returned"
  /\ UNCHANGED <<net, node, enterprise, nodes_done, engineVars>>

\* the first detail card is taken and its name read
CardFound(h2) ==
  /\ pc = "select"
  /\ enterprise' = Some([Enterprise_new EXCEPT !.name = trim(h2)])
  /\ pc' = "nodes"
  /\ UNCHANGED <<net, result, node, nodes_done, engineVars>>

\* one turn of the loop over the description nodes of the card
DescriptionNode(text) ==
  /\ pc = "nodes"
  /\ nodes_done < MaxNodes
  /\ enterprise' = Some(process_node(enterprise.val, text))
  /\ node' = text
  /\ nodes_done' = nodes_done + 1
  /\ UNCHANGED <<pc, net, result, engineVars>>

ReturnSome ==
  /\ pc = "nodes"
  /\ result' = enterprise
  /\ pc' = "returned"
  /\ UNCHANGED <<net, node, enterprise, nodes_done, engineVars>>

ExtractNext ==
  \/ ReturnNone
  \/ \E h2 \in Headings : CardFound(h2)
  \/ \E text \in Blobs : DescriptionNode(text)
  \/ ReturnSome

ExtractSpec == ExtractInit /\ [][ExtractNext]_vars

\* ---------------------------------------------------------------- link extractors alone
\* The two link extractors on one document.  pager holds the href values
\* (after unwrap_or("")) of the anchors inside the matched pagination lists,
\* lm those of the anchors of class lm, both in document order; <<>> is the
\* empty href of an anchor whose href is empty or missing.
Hrefs ==
  {<<"http://", 1>>, <<"https://", 1>>, <<"/", 1>>, <<"#", 1>>, <<"javascript:", 1>>, <<>>}

LinkDocs == [pager : SeqsUpTo(Hrefs, MaxAnchors),
             lm    : SeqsUpTo(Hrefs, MaxAnchors),
             doc   : {NoCard}]

LinksInit ==
  /\ pc = "parse"
  /\ net \in [outs : {<<>>}, body : LinkDocs]
  /\ result = [pagination |-> <<>>, enterprise |-> <<>>]
  /\ max_records = 0
  /\ timeout = 0
  /\ retries_on_timeout = 0
  /\ urls_to_visit = <<>>
  /\ url_visited = <<>>
  /\ enterprises = <<>>
  /\ errlog = <<>>
  /\ sink = <<>>
  /\ panic = NoPanic
  /\ linked = {}
  /\ node = <<>>
  /\ enterprise = None
  /\ nodes_done = 0

ExtractLinks ==
  /\ pc = "parse"
  /\ result' = [pagination |-> extract_pagination_links(net.body),
                enterprise |-> extract_enterprise_links(net.body)]
  /\ pc' = "returned"
  /\ UNCHANGED <<net, engineVars, extractVars>>

LinksNext == ExtractLinks

LinksSpec == LinksInit /\ [][LinksNext]_vars

\* ================================================================ claims

\* C1: every URL is enqueued at most once during the whole run (the seed's
\* initial placement counted), whatever pages link to it, itself included.
\* Between iterations every URL enqueued so far is still in urls_to_visit or
\* has been moved to url_visited, so the number of times a URL was enqueued
\* is the number of its entries in the two collections.
C1_EnqueuedAtMostOnce ==
  \A u \in URLS : Count(urls_to_visit, u) + Count(url_visited, u) <= 1

\* C2: at every iteration boundary urls_to_visit and url_visited have no URL
\* in common, and a URL that is in url_visited is never pushed onto
\* urls_to_visit afterwards.
C2_FrontierVisitedDisjoint ==
  /\ [](Range(urls_to_visit) \cap Range(url_visited) = {})
  /\ [][\A u \in Range(url_visited) :
          Count(urls_to_visit', u) <= Count(urls_to_visit, u)]_vars

\* no call of scrap_url has returned an error or panicked so far
C3_NoFetchFailed == panic = NoPanic /\ errlog = <<>>

\* the loop has been left with an empty frontier and every URL of linked
\* visited; linked is then closed under the links of the fetched pages, so
\* it is the set of URLs reachable from the seed
C3_ExitedComplete ==
  /\ pc \in {"csv", "done"}
  /\ urls_to_visit = <<>>
  /\ Range(url_visited) = linked

\* C3: with max_records = 0 and every fetch succeeding, the crawl loop
\* eventually exits with urls_to_visit empty and the set of URLs in
\* url_visited equal to the set of URLs reachable from the seed by following
\* extracted links.  The statement is checked for every sequence of served
\* pages, those of the acyclic link graphs among them.
C3_TerminatesWithReachable ==
  (max_records = 0) => <>(~C3_NoFetchFailed \/ C3_ExitedComplete)

C3_Witness ==
  /\ pc = "done"
  /\ max_records = 0
  /\ C3_NoFetchFailed
  /\ NoDup(url_visited)
  /\ Range(url_visited) = URLS
  /\ C3_ExitedComplete

\* the state part of C4
C4_Inv ==
  /\ max_records > 0 => Len(enterprises) <= max_records
  /\ (max_records > 0 /\ pc = "loop") => Len(enterprises) < max_records
  /\ (max_records = 0 /\ pc \in {"csv", "done"}) => urls_to_visit = <<>>

\* C4: with max_records = N > 0 the number of collected records never
\* exceeds N, the loop is left at the end of the iteration that appends the
\* Nth record (the program is never back at the loop head with N records),
\* and nothing is fetched or enqueued afterwards; with max_records = 0 the
\* loop is left only with an empty frontier.
C4_BudgetCutoff ==
  /\ []C4_Inv
  /\ [][(max_records > 0 /\ Len(enterprises) >= max_records)
          => UNCHANGED <<urls_to_visit, url_visited, enterprises, errlog>>]_vars

C4_Witness ==
  /\ pc = "done"
  /\ max_records > 1
  /\ Len(enterprises) = max_records
  /\ urls_to_visit # <<>>

\* C5: for a call of scrap_url that passes its assertions, with
\* retries_on_timeout = R: R-1 timeouts followed by a good response return
\* Ok with that response's body; R timeouts return the TimedOut error; and
\* the call makes at least 1 and at most R requests.
C5_RetrySemantics ==
  (pc = "returned" /\ timeout > 0 /\ retries_on_timeout > 0) =>
    LET R == retries_on_timeout
    IN /\ ((\A i \in 1..(R - 1) : net.outs[i] = "timeout") /\ net.outs[R] = "ok")
            => (result.kind = "Ok" /\ result.body = net.body /\ result.attempts = R)
       /\ (\A i \in 1..R : net.outs[i] = "timeout")
            => (result.kind = "Err" /\ result.err = "TimedOut")
       /\ result.attempts \in 1..R

C5_Witness ==
  /\ pc = "returned"
  /\ timeout > 0
  /\ retries_on_timeout = 2
  /\ net.outs = <<"timeout", "ok">>
  /\ net.body.doc.card
  /\ result.kind = "Ok"
  /\ result.attempts = 2

C7_BadPageNeverAborts ==
  (timeout > 0 /\ retries_on_timeout > 0) => pc # "panicked"

\* a step that processes one description node
C8_NodeProcessed == pc = "nodes" /\ nodes_done' = nodes_done + 1

\* C8 as claimed: after a description node is processed, every field whose
\* label occurs in the node's text holds the trimmed text from just after
\* the label to the end of that (original) text.
C8_OriginalBlobSlicing ==
  [][C8_NodeProcessed =>
       \A k \in 1..4 :
         LET p == find(node', LabelOrder[k])
         IN p # 0 => enterprise'.val[FieldOrder[k]] = trim(SubSeq(node', p + 1, Len(node')))]_vars

\* where the text searched by the k-th lookup ends: at the label found last
\* by the lookups before it, at the end of blob if none found its label
RECURSIVE C8_End(_, _)
C8_End(blob, k) ==
  IF k = 1
    THEN Len(blob)
    ELSE LET p == find(blob, LabelOrder[k - 1])
             e == C8_End(blob, k - 1)
         IN IF p # 0 /\ p <= e THEN p ELSE e

\* C8 as amended: the k-th lookup searches the node's text cut off just
\* after the label found last by the lookups before it (the whole text if
\* none found its label); if the label occurs in that part, the field is the
\* trimmed text from just after the label to the end of that part; otherwise
\* the field keeps its value.
C8_TruncatedBlobSlicing ==
  [][C8_NodeProcessed =>
       \A k \in 1..4 :
         LET p == find(node', LabelOrder[k])
             e == C8_End(node', k)
         IN enterprise'.val[FieldOrder[k]] =
              IF p # 0 /\ p <= e
                THEN trim(SubSeq(node', p + 1, e))
                ELSE enterprise.val[FieldOrder[k]]]_vars

C8_Witness ==
  /\ pc = "nodes"
  /\ nodes_done = 1
  /\ node = <<"Domicilio", "Teléfono", "x">>
  /\ enterprise.val.address = <<"Teléfono", "x">>
  /\ enterprise.val.phone = <<>>

\* C9: nothing is written to the sink while the loop runs; after the loop
\* the sink holds nothing if no record was collected, and otherwise the
\* header row once, followed by one row per record in collection order.
C9_CsvOutput ==
  /\ pc \in {"loop", "csv", "panicked"} => sink = <<>>
  /\ pc = "done" =>
       IF enterprises = <<>>
         THEN sink = <<>>
         ELSE /\ Len(sink) = Len(enterprises) + 1
              /\ sink[1] = CSV_COLUMNS_LABALS
              /\ \A i \in 1..Len(enterprises) : sink[i + 1] = serialize(enterprises[i])

C9_Witness ==
  /\ pc = "done"
  /\ Len(enterprises) = 2
  /\ enterprises[1] # enterprises[2]
  /\ Len(sink) = 3
  /\ sink[2] = serialize(enterprises[1])

\* C10: in a run started with timeout = 0 or retries_on_timeout = 0 the
\* first call of scrap_url panics on an assertion before sending a request:
\* the run aborts on the first dequeued URL, which is neither recorded as a
\* failed fetch nor marked visited, and nothing else is ever dequeued.
C10_PreconditionFailFast ==
  (timeout = 0 \/ retries_on_timeout = 0) =>
    \/ /\ pc = "loop"
       /\ urls_to_visit = <<Seed>>
       /\ url_visited = <<>>
    \/ /\ pc = "panicked"
       /\ panic.msg \in {"assert!(timeout > 0)", "assert!(retries_on_timeout > 0)"}
       /\ panic.attempts = 0
       /\ urls_to_visit = <<>>
       /\ url_visited = <<>>
       /\ errlog = <<>>
       /\ enterprises = <<>>
       /\ sink = <<>>

C10_Witness ==
  /\ pc = "panicked"
  /\ retries_on_timeout = 0
  /\ timeout > 0
  /\ panic = [msg |-> "assert!(retries_on_timeout > 0)", attempts |-> 0]

\* the positions of the absolute hrefs in hrefs
C11_AbsolutePositions(hrefs) ==
  {i \in 1..Len(hrefs) : Len(hrefs[i]) > 0 /\ hrefs[i][1] \in {"http://", "https://"}}

\* links holds exactly the absolute hrefs of hrefs: as many as there are,
\* the k-th link being the k-th absolute href
C11_Filtered(hrefs, links) ==
  LET abs == C11_AbsolutePositions(hrefs)
  IN /\ Len(links) = Cardinality(abs)
     /\ \A i \in abs : links[Cardinality({j \in abs : j <= i})] = hrefs[i]

\* C11: each link extractor returns, in document order and with duplicates
\* kept, exactly the hrefs of its matched anchors that start with "http://"
\* or "https://"; relative, fragment, javascript:, empty and missing hrefs
\* are dropped, and no matched anchor gives the empty sequence.
C11_AbsoluteLinkFilter ==
  pc = "returned" =>
    /\ C11_Filtered(net.body.pager, result.pagination)
    /\ C11_Filtered(net.body.lm, result.enterprise)
    /\ (net.body.pager = <<>> => result.pagination = <<>>)
    /\ (net.body.lm = <<>> => result.enterprise = <<>>)

C11_Witness ==
  /\ pc = "returned"
  /\ net.body.pager = << <<"/", 1>>, <<"javascript:", 1>>, <<"https://", 1>> >>
  /\ result.pagination = << <<"https://", 1>> >>
  /\ net.body.lm = << <<"http://", 1>>, <<>>, <<"http://", 1>> >>
  /\ result.enterprise = << <<"http://", 1>>, <<"http://", 1>> >>

\* a step in which scrap_url returned an error for the dequeued URL
C12_FetchFailed == errlog' # errlog

\* C12: an iteration whose fetch fails pushes nothing onto urls_to_visit and
\* appends nothing to the records, still appends the dequeued URL to
\* url_visited, and that URL is never in the frontier, so never fetched,
\* again.
C12_FailedFetchEffect ==
  /\ [](\A u \in Range(errlog) : ~Contains(urls_to_visit, u))
  /\ [][C12_FetchFailed =>
          /\ urls_to_visit' = Tail(urls_to_visit)
          /\ enterprises' = enterprises
          /\ url_visited' = Append(url_visited, Head(urls_to_visit))
          /\ errlog' = Append(errlog, Head(urls_to_visit))]_vars

C12_Witness ==
  /\ pc = "done"
  /\ Len(url_visited) = 3
  /\ errlog = <<url_visited[2]>>
  /\ url_visited[3] # url_visited[2]

\* the URLs an iteration added to the frontier: what follows the entries
\* that were already waiting
C13_New == SubSeq(urls_to_visit', Len(urls_to_visit), Len(urls_to_visit'))

\* position of the first occurrence of x in s
C13_First(s, x) == CHOOSE i \in 1..Len(s) : s[i] = x /\ \A j \in 1..(i - 1) : s[j] # x

\* place of link x in a page: pagination links first, then enterprise
\* links, each group in document order
C13_Rank(body, x) ==
  LET pag == extract_pagination_links(body)
      ent == extract_enterprise_links(body)
  IN IF Contains(pag, x) THEN C13_First(pag, x) ELSE Len(pag) + C13_First(ent, x)

\* C13: every iteration takes the URL at the head of the frontier, which
\* becomes the next entry of url_visited, and leaves the waiting URLs in
\* their order, so the URLs fetched followed by the URLs waiting are always
\* the URLs in the order they were enqueued; new URLs go to the tail, those
\* of one page ordered with all pagination links before all enterprise
\* links, each group in document order; a failed fetch adds none.
C13_FifoOrder ==
  [][(pc = "loop" /\ urls_to_visit # <<>>) =>
       /\ Len(urls_to_visit') >= Len(urls_to_visit) - 1
       /\ SubSeq(urls_to_visit', 1, Len(urls_to_visit) - 1) = Tail(urls_to_visit)
       /\ pc' # "panicked" =>
            /\ url_visited' = Append(url_visited, Head(urls_to_visit))
            /\ SubSeq(url_visited' \o urls_to_visit', 1, Len(url_visited) + Len(urls_to_visit))
                 = url_visited \o urls_to_visit
       /\ IF pc' # "panicked" /\ errlog' = errlog
            THEN /\ \A i \in 1..Len(C13_New) :
                      \/ Contains(extract_pagination_links(net'.body), C13_New[i])
                      \/ Contains(extract_enterprise_links(net'.body), C13_New[i])
                 /\ \A i, j \in 1..Len(C13_New) :
                      i < j => C13_Rank(net'.body, C13_New[i]) < C13_Rank(net'.body, C13_New[j])
            ELSE C13_New = <<>>]_vars

C13_Witness ==
  /\ url_visited = <<Seed>>
  /\ net.body.pager = << <<"http://", 3>>, <<"http://", 2>> >>
  /\ net.body.lm = << <<"http://", 1>> >>
  /\ urls_to_visit = << <<"http://", 3>>, <<"http://", 2>>, <<"http://", 1>> >>

\* C14: every completed iteration appends exactly the URL it dequeued to
\* url_visited, whether the fetch succeeded or failed, and no other step
\* changes url_visited: it only grows, one entry per iteration, in dequeue
\* order.
C14_VisitedGrows ==
  [][IF pc = "loop" /\ urls_to_visit # <<>> /\ pc' # "panicked"
       THEN url_visited' = Append(url_visited, Head(urls_to_visit))
       ELSE url_visited' = url_visited]_vars

C14_Witness ==
  /\ pc = "loop"
  /\ Len(url_visited) = 2
  /\ errlog = <<url_visited[2]>>
  /\ urls_to_visit # <<>>

\* the k-th lookup of a description node finds its label: the label occurs
\* in the text as the lookups before it left it
C15_Found(blob, k) ==
  LET p == find(blob, LabelOrder[k])
  IN p # 0 /\ p <= C8_End(blob, k)

\* C15: a page without a detail card yields None; a page with a card yields
\* Some of exactly the record built, whose four fields are empty before the
\* first description block; after the first block a field whose label does
\* not occur in it is empty; and a block in which a label is not found
\* leaves the field as the earlier blocks set it.
C15_RecordProduction ==
  /\ [](pc = "returned" => result = enterprise)
  /\ [](enterprise.some /\ nodes_done = 0 =>
          \A k \in 1..4 : enterprise.val[FieldOrder[k]] = <<>>)
  /\ [](enterprise.some /\ nodes_done = 1 =>
          \A k \in 1..4 : find(node, LabelOrder[k]) = 0 => enterprise.val[FieldOrder[k]] = <<>>)
  /\ [][(pc = "select" /\ pc' = "returned") => result' = None]_vars
  /\ [][(pc = "select" /\ pc' = "nodes") => enterprise'.some]_vars
  /\ [][(pc = "nodes" /\ pc' = "returned") => (result'.some /\ result' = enterprise)]_vars
  /\ [][C8_NodeProcessed =>
          \A k \in 1..4 :
            ~C15_Found(node', k) => enterprise'.val[FieldOrder[k]] = enterprise.val[FieldOrder[k]]]_vars

C15_Witness ==
  /\ pc = "returned"
  /\ nodes_done = 2
  /\ node = <<"Teléfono", "x">>
  /\ result.some
  /\ result.val.address = <<"x">>
  /\ result.val.phone = <<"x">>
  /\ result.val.email = <<>>

\* C16: in every reachable state the frontier holds no URL twice.
C16_FrontierNoDuplicates == NoDup(urls_to_visit)

C16_Witness ==
  /\ url_visited = <<Seed>>
  /\ net.body.pager = << <<"http://", 2>>, <<"http://", 2>> >>
  /\ net.body.lm = << <<"http://", 2>> >>
  /\ urls_to_visit = << <<"http://", 2>> >>

\* C17: the crawl loop is eventually left, whatever the pages link to,
\* whichever fetches fail and whatever the budget.
C17_LoopTerminates == <>(pc # "loop")

C17_Witness ==
  /\ pc = "done"
  /\ max_records = 0
  /\ errlog # <<>>
  /\ \E u \in URLS : Count(url_visited, u) = 2

\* a step in which scrap_url returned a page for the dequeued URL
C18_FetchOk == pc = "loop" /\ urls_to_visit # <<>> /\ pc' # "panicked" /\ errlog' = errlog

\* C18: every URL is dequeued at most twice in a run (its fetches and its
\* entries in the frontier count at most two together); a URL already
\* fetched is only enqueued again by the iteration that has just dequeued
\* it, when its page was fetched and links to it; and a fetched page with a
\* detail card adds one record, no other step adds any.
C18_AtMostTwoFetches ==
  /\ [](\A u \in URLS : Count(url_visited, u) + Count(urls_to_visit, u) <= 2)
  /\ [][\A u \in Range(url_visited) : Count(urls_to_visit', u) <= Count(urls_to_visit, u)]_vars
  /\ [][(pc = "loop" /\ urls_to_visit # <<>> /\ Contains(urls_to_visit', Head(urls_to_visit))) =>
          /\ C18_FetchOk
          /\ \/ Contains(net'.body.pager, Head(urls_to_visit))
             \/ Contains(net'.body.lm, Head(urls_to_visit))]_vars
  /\ [][Len(enterprises') = Len(enterprises) + (IF C18_FetchOk /\ net'.body.doc.card THEN 1 ELSE 0)]_vars

C18_Witness ==
  /\ pc = "done"
  /\ url_visited = <<Seed, Seed>>
  /\ Len(enterprises) = 2
  /\ net.body.pager = <<>>
  /\ net.body.lm = <<>>

====
